---------------------------- MODULE Spec2Model ----------------------------
(***************************************************************************)
(* Model of the MimiC middle end: the IR builder of mid/module.cpp, the    *)
(* pass manager of opt/passman.cpp and the loop-invariant code motion      *)
(* pass of opt/transforms/licm.cpp.                                        *)
(*                                                                         *)
(* Spec      : the builder (insert point, blocks, terminators,             *)
(*             predecessor lists, the global constructor and its sealing). *)
(* TypedSpec : the typed factories (CreateStore, CreateCast) applied to    *)
(*             values and pointers drawn from a bounded set.               *)
(* PassManSpec : PassManager::RunPasses over a registry of abstract passes *)
(*             whose run_on_* results are arbitrary.                       *)
(* LicmSpec  : RunPasses with LICM as its only pass, on functions with     *)
(*             three nested loops drawn from a bounded set.                *)
(***************************************************************************)
EXTENDS Integers, Sequences, FiniteSets, TLC

VARIABLES
  insts,            \* BlockSSA::insts_ of every block: block -> Seq(instruction)
  preds,            \* BlockSSA operands (predecessor uses): block -> Seq(block)
  insert_point_,    \* Module::insert_point_
  funcs_,           \* Module::funcs_
  global_ctor_,     \* Module::global_ctor_ (Null until created)
  ctor_entry_,      \* Module::ctor_entry_
  ctor_exit_,       \* Module::ctor_exit_
  is_ctor_sealed_,  \* Module::is_ctor_sealed_
  guards,           \* live xstl::Guard objects of EnterGlobalCtor, innermost first:
                    \* each holds the cur_block its lambda captured
  acquired,         \* history: the insert point at each live EnterGlobalCtor call
  aborted,          \* an assertion of the builder failed: the process is gone
  last_call,        \* history: the last typed factory call, its arguments, the
                    \* block it inserted into and that block's length before it
  ret_type,         \* return type of the org_type of the front end's function
  passes,           \* PassManager::GetPasses(): the registered PassInfo records
  opt_level_,       \* PassManager::opt_level_
  pm_pc,            \* where PassManager::RunPasses stands
  pm_idx,           \* the for loop's position in the pass list
  changed,          \* RunPasses' local `changed`
  pm_log,           \* history: the run_on_* calls of the current sweep, with results
  sweeps,           \* history: sweeps started
  budget,           \* how often a pass may still report a change
  defs,             \* what each instruction of the function is and uses
  func_blocks,      \* the function's blocks, in the order of its block list
  body_order,       \* the order in which a LoopInfo body set is iterated
  parent_,          \* LICM's ParentScanner: instruction -> block
  cur_loop_,        \* LICM's cur_loop_, as a position in the loop list
  marked_invs_,     \* LoopInvariantCodeMotionPass::marked_invs_
  invs_,            \* LoopInvariantCodeMotionPass::invs_
  stored_ptrs_,     \* LoopInvariantCodeMotionPass::stored_ptrs_
  run_changed,      \* RunOnFunction's local `changed`
  run_start,        \* history: the instruction lists when RunOnFunction began
  base_ptr,         \* GetBasePointer's `ptr`
  base_pc           \* where a GetBasePointer call is: idle, at the top of its
                    \* loop, in a branch of it, returned

bvars == <<insts, preds, insert_point_, funcs_, global_ctor_, ctor_entry_,
           ctor_exit_, is_ctor_sealed_, guards, acquired>>

tvars == <<aborted, last_call, ret_type>>

pvars == <<passes, opt_level_, pm_pc, pm_idx, changed, pm_log, sweeps, budget>>

lvars == <<defs, func_blocks, body_order, parent_, cur_loop_, marked_invs_,
           invs_, stored_ptrs_, run_changed, run_start, base_ptr, base_pc>>

nonbuilder == <<pvars, lvars>>

vars == <<bvars, tvars, pvars, lvars>>

Null == "null"

\* ------------------------------------------------------------------ bounds
MaxInsts == 2      \* the front end creates while fewer instructions than this exist
MaxGuards == 2     \* nesting depth of EnterGlobalCtor scopes
MaxPasses == 2     \* registered passes
MaxChanges == 2    \* run_on_* calls of one RunPasses that report a change
MaxSweeps == 3     \* sweeps of RunPasses that are told apart

\* ------------------------------------------------------------------ blocks
UserFunc == "f"
CtorName == "_$ctor"
UserBlocks == {"b1", "b2"}
EntryBlock == "entry"
ExitBlock == "exit"
AllBlocks == UserBlocks \cup {EntryBlock, ExitBlock}

\* ------------------------------------------------------------------- types
\* define::Type, as far as the builder reads it.
NoType == [k |-> "none"]
Prim(kind, uns) == [k |-> "prim", kind |-> kind, uns |-> uns]
Pointer(base) == [k |-> "ptr", base |-> base]
Array(base, len) == [k |-> "arr", base |-> base, len |-> len]
Qualified(base) == [k |-> "const", base |-> base]
Void == Prim("Void", FALSE)
I8 == Prim("Int8", FALSE)
I32 == Prim("Int32", FALSE)
U32 == Prim("Int32", TRUE)

IsVoid(t) == t = Void
IsInteger(t) == t.k = "prim" /\ t.kind # "Void"
IsPointer(t) == t.k = "ptr"
IsArray(t) == t.k = "arr"
GetSize(t) == IF t.k = "prim" THEN (IF t.kind = "Int8" THEN 1 ELSE IF t.kind = "Int32" THEN 4 ELSE 0) ELSE 4
GetDerefedType(t) == IF t.k \in {"ptr", "arr"} THEN t.base ELSE NoType
GetTrivialType(t) == IF t.k = "const" THEN t.base ELSE t
IsIdentical(a, b) == a = b

CanAccept(dst, src) ==
  \/ IsIdentical(dst, src)
  \/ IsInteger(dst) /\ IsInteger(src) /\ GetSize(src) <= GetSize(dst)
  \/ IsPointer(dst) /\ IsArray(src) /\ IsIdentical(dst.base, src.base)
  \/ IsPointer(dst) /\ IsPointer(src) /\ (IsVoid(dst.base) \/ IsVoid(src.base))

CanCastTo(src, dst) ==
  \/ CanAccept(dst, src)
  \/ IsInteger(src) /\ IsInteger(dst)
  \/ IsInteger(src) /\ IsPointer(dst)
  \/ IsPointer(src) /\ IsInteger(dst)
  \/ IsPointer(src) /\ IsPointer(dst)

\* ------------------------------------------------------------------ values
\* A Value: its kind, its type, its operands, a terminator's successor blocks,
\* and what Value::GetAddr returns for it (NoVal for a null pointer).
NoVal == [kind |-> "none"]
SSA(kind, type, ops, succ, addr) ==
  [kind |-> kind, type |-> type, ops |-> ops, succ |-> succ, addr |-> addr]

Alloca == SSA("Alloca", NoType, <<>>, <<>>, NoVal)
Jump(target) == SSA("Jump", NoType, <<>>, <<target>>, NoVal)
Branch(true_block, false_block) ==
  SSA("Branch", NoType, <<>>, <<true_block, false_block>>, NoVal)
Return == SSA("Return", NoType, <<>>, <<>>, NoVal)
AllocaOf(type) == SSA("Alloca", Pointer(type), <<>>, <<>>, NoVal)
LoadOf(ptr) == SSA("Load", GetDerefedType(ptr.type), <<ptr>>, <<>>, ptr)
ConstInt(type) == SSA("ConstInt", type, <<>>, <<>>, NoVal)
ArgRef(type) == SSA("ArgRef", type, <<>>, <<>>, NoVal)
Store(val, ptr) == SSA("Store", NoType, <<val, ptr>>, <<>>, NoVal)
Cast(operand, target) == SSA("Cast", target, <<operand>>, <<>>, NoVal)
CallOf(type) == SSA("Call", type, <<>>, <<>>, NoVal)
ReturnOf(val) == SSA("Return", NoType, <<val>>, <<>>, NoVal)

IsConst(v) == v.kind = "ConstInt"
GetAddr(v) == v.addr

IsTerminator(i) == i.kind \in {"Jump", "Branch", "Return"}

\* The builder's part of the Module object, as one record.
Cur == [insts |-> insts, preds |-> preds, insert_point_ |-> insert_point_,
        funcs_ |-> funcs_, global_ctor_ |-> global_ctor_,
        ctor_entry_ |-> ctor_entry_, ctor_exit_ |-> ctor_exit_,
        is_ctor_sealed_ |-> is_ctor_sealed_]

Become(s) ==
  /\ insts' = s.insts
  /\ preds' = s.preds
  /\ insert_point_' = s.insert_point_
  /\ funcs_' = s.funcs_
  /\ global_ctor_' = s.global_ctor_
  /\ ctor_entry_' = s.ctor_entry_
  /\ ctor_exit_' = s.ctor_exit_
  /\ is_ctor_sealed_' = s.is_ctor_sealed_

\* ------------------------------------------------------------ the builder
\* Module::AddInst<T>: make the instruction, append it to the insert point.
AddInst(s, inst) == [s EXCEPT !.insts[s.insert_point_] = Append(@, inst)]

\* User::AddValue on a block: append a predecessor use.
AddValue(s, block, value) == [s EXCEPT !.preds[block] = Append(@, value)]

CreateFunction(s, name) == [s EXCEPT !.funcs_ = Append(@, name)]

CreateAlloca(s) == AddInst(s, Alloca)

CreateJump(s, target) ==
  AddValue(AddInst(s, Jump(target)), target, s.insert_point_)

CreateBranch(s, true_block, false_block) ==
  LET s1 == AddInst(s, Branch(true_block, false_block))
      s2 == AddValue(s1, true_block, s1.insert_point_)
  IN AddValue(s2, false_block, s2.insert_point_)

CreateReturn(s) == AddInst(s, Return)

SealGlobalCtorNoFlag(s) ==
  IF s.global_ctor_ # Null /\ ~s.is_ctor_sealed_
    THEN CreateJump([s EXCEPT !.insert_point_ = s.ctor_entry_], s.ctor_exit_)
    ELSE s

SealGlobalCtor(s) ==
  IF s.global_ctor_ # Null /\ ~s.is_ctor_sealed_
    THEN [CreateJump([s EXCEPT !.insert_point_ = s.ctor_entry_], s.ctor_exit_)
            EXCEPT !.is_ctor_sealed_ = TRUE]
    ELSE s

\* The block the guard of EnterGlobalCtor restores: cur_block, read on entry.
EnterCaptureAfterSwitch(s) == IF s.global_ctor_ = Null THEN EntryBlock ELSE s.ctor_entry_

EnterCapture(s) == s.insert_point_

\* Module::EnterGlobalCtor, the module after the call.
EnterGlobalCtor(s) ==
  LET made ==
        IF s.global_ctor_ = Null
          THEN LET s1 == [CreateFunction(s, CtorName) EXCEPT
                            !.global_ctor_ = CtorName,
                            !.ctor_entry_ = EntryBlock,
                            !.ctor_exit_ = ExitBlock]
                   s2 == CreateReturn([s1 EXCEPT !.insert_point_ = s1.ctor_exit_])
               IN [s2 EXCEPT !.is_ctor_sealed_ = FALSE]
          ELSE s
  IN [made EXCEPT !.insert_point_ = made.ctor_entry_]

\* The module as Dump, RunPasses and GenerateCode see it when they visit their
\* first variable or function: each calls SealGlobalCtor first.
FirstVisit(s) == SealGlobalCtor(s)

\* The guard's lambda: insert_point_ = cur_block.
ReleaseGuard(s, cur_block) == [s EXCEPT !.insert_point_ = cur_block]

\* A factory's outcome: the module after it, the value it returns, and whether
\* every assertion on its way held (ok = FALSE: the call hit an assertion).
Outcome(s, val, ok) == [s |-> s, val |-> val, ok |-> ok]

\* What evaluating val->type() on a null val can end in: the read faults, or
\* it yields a type that fails the comparison, or one that passes it.
NullDerefOutcomes == {"crash", "assert", "returned"}

\* Module::CreateReturn(value) in a function returning return_type; ub is the
\* outcome taken if the assertion dereferences a null value.
CreateReturnOf(s, return_type, value, ub) ==
  IF IsVoid(return_type) /\ value = NoVal
    THEN [s |-> AddInst(s, ReturnOf(value)), end |-> "returned"]
  ELSE IF value = NoVal
    THEN [s |-> IF ub = "returned" THEN AddInst(s, ReturnOf(value)) ELSE s,
          end |-> ub]
  ELSE IF IsIdentical(GetTrivialType(return_type), value.type)
    THEN [s |-> AddInst(s, ReturnOf(value)), end |-> "returned"]
  ELSE [s |-> s, end |-> "assert"]

\* CreateCast without the early return for an operand already of the type.
CreateCastAlways(s, opr, type) ==
  LET target == GetTrivialType(type)
      operand == IF IsArray(opr.type) THEN GetAddr(opr) ELSE opr
  IN IF ~CanCastTo(opr.type, target) THEN Outcome(s, NoVal, FALSE)
     ELSE IF operand = NoVal THEN Outcome(s, NoVal, FALSE)
     ELSE IF IsConst(operand) THEN Outcome(s, Cast(operand, target), TRUE)
     ELSE IF s.insert_point_ = Null THEN Outcome(s, NoVal, FALSE)
     ELSE Outcome(AddInst(s, Cast(operand, target)), Cast(operand, target), TRUE)

\* Module::CreateCast(opr, type).
CreateCast(s, opr, type) ==
  LET target == GetTrivialType(type)
      operand == IF IsArray(opr.type) THEN GetAddr(opr) ELSE opr
  IN IF ~CanCastTo(opr.type, target) THEN Outcome(s, NoVal, FALSE)
     ELSE IF IsIdentical(opr.type, target) THEN Outcome(s, opr, TRUE)
     ELSE IF operand = NoVal THEN Outcome(s, NoVal, FALSE)
     ELSE IF IsConst(operand) THEN Outcome(s, Cast(operand, target), TRUE)
     ELSE IF s.insert_point_ = Null THEN Outcome(s, NoVal, FALSE)
     ELSE Outcome(AddInst(s, Cast(operand, target)), Cast(operand, target), TRUE)

\* The loop of Module::CreateStore: take the address of ptr until its pointee
\* accepts the value (NoVal: GetAddr returned null, assert(ptr) fails).
RECURSIVE ProperPointer(_, _)
ProperPointer(ptr, val) ==
  IF ptr = NoVal THEN NoVal
  ELSE IF GetDerefedType(ptr.type) = NoType
          \/ ~CanAccept(GetDerefedType(ptr.type), val.type)
    THEN ProperPointer(GetAddr(ptr), val)
    ELSE ptr

CreateStoreCastAfter(s, value, pointer) ==
  LET ptr == ProperPointer(pointer, value)
      target_ty == GetDerefedType(ptr.type)
      s1 == AddInst(s, Store(value, ptr))
      c == CreateCast(s1, value, target_ty)
  IN IF ptr = NoVal THEN Outcome(s, NoVal, FALSE)
     ELSE IF IsIdentical(value.type, target_ty) THEN Outcome(s1, Store(value, ptr), TRUE)
     ELSE Outcome(c.s, Store(value, ptr), c.ok)

\* Module::CreateStore(value, pointer).
CreateStore(s, value, pointer) ==
  LET ptr == ProperPointer(pointer, value)
      target_ty == GetDerefedType(ptr.type)
      c == IF ~IsIdentical(value.type, target_ty)
             THEN CreateCast(s, value, target_ty)
             ELSE Outcome(s, value, TRUE)
  IN IF ptr = NoVal THEN Outcome(s, NoVal, FALSE)
     ELSE IF ~c.ok THEN Outcome(s, NoVal, FALSE)
     ELSE Outcome(AddInst(c.s, Store(c.val, ptr)), Store(c.val, ptr), TRUE)

\* ----------------------------------------------------- the pass manager
\* The pass manager before any pass is registered.
PassManIdle ==
  /\ passes = <<>>
  /\ opt_level_ = 0
  /\ pm_pc = "register"
  /\ pm_idx = 0
  /\ changed = FALSE
  /\ pm_log = <<>>
  /\ sweeps = 0
  /\ budget = 0

\* LICM before it is run.
LicmIdle ==
  /\ defs = <<>>
  /\ func_blocks = <<>>
  /\ body_order = <<>>
  /\ parent_ = <<>>
  /\ cur_loop_ = 0
  /\ marked_invs_ = {}
  /\ invs_ = <<>>
  /\ stored_ptrs_ = {}
  /\ run_changed = FALSE
  /\ run_start = <<>>
  /\ base_ptr = Null
  /\ base_pc = "idle"

\* ------------------------------------------------------------ the actions
NoCall == [op |-> "none", value |-> NoVal, pointer |-> NoVal, block |-> Null,
           before |-> 0, type |-> NoType, ret |-> NoVal, end |-> "none"]

Created == Len(insts["b1"]) + Len(insts["b2"]) + Len(insts[EntryBlock])

Building == ~aborted /\ insert_point_ # Null /\ Created < MaxInsts

SetInsertPoint(b) ==
  /\ ~aborted
  /\ insert_point_' = b
  /\ UNCHANGED <<insts, preds, funcs_, global_ctor_, ctor_entry_, ctor_exit_,
                 is_ctor_sealed_, guards, acquired>>
  /\ UNCHANGED tvars
  /\ UNCHANGED nonbuilder

CreateAllocaAct ==
  /\ Building
  /\ Become(CreateAlloca(Cur))
  /\ UNCHANGED <<guards, acquired>>
  /\ UNCHANGED tvars
  /\ UNCHANGED nonbuilder

CreateJumpAct(target) ==
  /\ Building
  /\ Become(CreateJump(Cur, target))
  /\ UNCHANGED <<guards, acquired>>
  /\ UNCHANGED tvars
  /\ UNCHANGED nonbuilder

CreateBranchAct(t, f) ==
  /\ Building
  /\ Become(CreateBranch(Cur, t, f))
  /\ UNCHANGED <<guards, acquired>>
  /\ UNCHANGED tvars
  /\ UNCHANGED nonbuilder

CreateReturnAct ==
  /\ Building
  /\ Become(CreateReturn(Cur))
  /\ UNCHANGED <<guards, acquired>>
  /\ UNCHANGED tvars
  /\ UNCHANGED nonbuilder

EnterGlobalCtorAct ==
  /\ ~aborted
  /\ Len(guards) < MaxGuards
  /\ Become(EnterGlobalCtor(Cur))
  /\ guards' = <<EnterCapture(Cur)>> \o guards
  /\ acquired' = <<insert_point_>> \o acquired
  /\ UNCHANGED tvars
  /\ UNCHANGED nonbuilder

\* Guards are scoped objects: the innermost live one is destroyed first.
ReleaseGuardAct ==
  /\ ~aborted
  /\ guards # <<>>
  /\ Become(ReleaseGuard(Cur, Head(guards)))
  /\ guards' = Tail(guards)
  /\ acquired' = Tail(acquired)
  /\ UNCHANGED tvars
  /\ UNCHANGED nonbuilder

SealGlobalCtorAct ==
  /\ ~aborted
  /\ Become(SealGlobalCtor(Cur))
  /\ UNCHANGED <<guards, acquired>>
  /\ UNCHANGED tvars
  /\ UNCHANGED nonbuilder

\* Dump, RunPasses and GenerateCode: each seals, then walks vars_ and funcs_
\* (no pass is enabled at -O0, so none of the walks changes the module).
DumpAct ==
  /\ ~aborted
  /\ Become(FirstVisit(Cur))
  /\ UNCHANGED <<guards, acquired>>
  /\ UNCHANGED tvars
  /\ UNCHANGED nonbuilder

RunPassesAct ==
  /\ ~aborted
  /\ Become(FirstVisit(Cur))
  /\ UNCHANGED <<guards, acquired>>
  /\ UNCHANGED tvars
  /\ UNCHANGED nonbuilder

GenerateCodeAct ==
  /\ ~aborted
  /\ Become(FirstVisit(Cur))
  /\ UNCHANGED <<guards, acquired>>
  /\ UNCHANGED tvars
  /\ UNCHANGED nonbuilder

\* The module's fields after construction, the instruction lists aside.
ModuleFields(return_type) ==
  /\ preds = [b \in AllBlocks |-> <<>>]
  /\ insert_point_ = Null
  /\ funcs_ = <<UserFunc>>
  /\ global_ctor_ = Null
  /\ ctor_entry_ = Null
  /\ ctor_exit_ = Null
  /\ is_ctor_sealed_ = FALSE
  /\ guards = <<>>
  /\ acquired = <<>>
  /\ aborted = FALSE
  /\ last_call = NoCall
  /\ ret_type = return_type

\* The front end's function returns void.
ModuleIdle == ModuleFields(Void)

\* The module after construction, before any factory call.
BuilderIdle ==
  /\ insts = [b \in AllBlocks |-> <<>>]
  /\ ModuleIdle

Init ==
  /\ BuilderIdle
  /\ PassManIdle
  /\ LicmIdle

Next ==
  \/ \E b \in UserBlocks : SetInsertPoint(b)
  \/ CreateAllocaAct
  \/ \E t \in UserBlocks : CreateJumpAct(t)
  \/ \E t, f \in UserBlocks : CreateBranchAct(t, f)
  \/ CreateReturnAct
  \/ EnterGlobalCtorAct
  \/ ReleaseGuardAct
  \/ SealGlobalCtorAct
  \/ DumpAct
  \/ RunPassesAct
  \/ GenerateCodeAct

Spec == Init /\ [][Next]_vars

\* ------------------------------------------------- the typed factories
\* Values the front end hands to CreateStore: constants, arguments, a loaded
\* array (an array-typed value whose address is its alloca).
StoreValues ==
  {ConstInt(I8), ConstInt(I32), ArgRef(I8), ArgRef(I32), ArgRef(U32),
   ArgRef(Pointer(I32)), LoadOf(AllocaOf(Array(I32, 2)))}

\* Pointers the front end hands to CreateStore: allocas, and loads of locals
\* (a reference-typed local is stored through the value loaded from it).
StorePointers ==
  {AllocaOf(I32), AllocaOf(I8), AllocaOf(Pointer(I32)), LoadOf(AllocaOf(I32)),
   LoadOf(AllocaOf(Pointer(I32))), ArgRef(I32)}

CreateStoreAct(value, pointer) ==
  /\ ~aborted
  /\ Building
  /\ LET r == CreateStore(Cur, value, pointer)
     IN /\ Become(IF r.ok THEN r.s ELSE Cur)
        /\ aborted' = ~r.ok
        /\ last_call' = [op |-> "CreateStore", value |-> value, pointer |-> pointer,
                         block |-> insert_point_, before |-> Len(insts[insert_point_]),
                         type |-> NoType, ret |-> r.val,
                         end |-> IF r.ok THEN "returned" ELSE "assert"]
  /\ UNCHANGED ret_type
  /\ UNCHANGED <<guards, acquired>>
  /\ UNCHANGED nonbuilder

\* Target types the front end hands to CreateCast: the assigned-to type of a
\* declaration or parameter, which may carry a const qualifier.
CastTypes ==
  {I32, U32, Pointer(I32), Qualified(I32), Qualified(Pointer(I32)),
   Qualified(Array(I32, 2))}

\* Values the front end hands to CreateCast.
CastValues ==
  {ConstInt(I32), ArgRef(I32), ArgRef(Pointer(I32)),
   LoadOf(AllocaOf(Array(I32, 2)))}

\* A call of CreateCast; it needs no insert point unless it inserts.
CreateCastAct(opr, type) ==
  /\ ~aborted
  /\ Created < MaxInsts
  /\ LET r == CreateCast(Cur, opr, type)
     IN /\ Become(IF r.ok THEN r.s ELSE Cur)
        /\ aborted' = ~r.ok
        /\ last_call' = [op |-> "CreateCast", value |-> opr, pointer |-> NoVal,
                         block |-> insert_point_,
                         before |-> IF insert_point_ = Null THEN 0
                                    ELSE Len(insts[insert_point_]),
                         type |-> type, ret |-> r.val,
                         end |-> IF r.ok THEN "returned" ELSE "assert"]
  /\ UNCHANGED ret_type
  /\ UNCHANGED <<guards, acquired>>
  /\ UNCHANGED nonbuilder

\* Declared return types of the function being built.
RetTypes == {Void, I32, Qualified(I32)}

\* What the front end hands to CreateReturn: nothing, or the value of the
\* returned expression (a call's value has the callee's return type).
ReturnValues == {NoVal, ArgRef(I32), ArgRef(I8), CallOf(Void)}

CreateReturnOfAct(value, ub) ==
  /\ ~aborted
  /\ Building
  /\ LET r == CreateReturnOf(Cur, ret_type, value, ub)
     IN /\ Become(r.s)
        /\ aborted' = (r.end # "returned")
        /\ last_call' = [op |-> "CreateReturn", value |-> value, pointer |-> NoVal,
                         block |-> insert_point_, before |-> Len(insts[insert_point_]),
                         type |-> NoType, ret |-> NoVal, end |-> r.end]
  /\ UNCHANGED ret_type
  /\ UNCHANGED <<guards, acquired>>
  /\ UNCHANGED nonbuilder

TypedInit == Init

TypedNext ==
  \/ \E b \in UserBlocks : SetInsertPoint(b)
  \/ \E value \in StoreValues, pointer \in StorePointers : CreateStoreAct(value, pointer)

TypedSpec == TypedInit /\ [][TypedNext]_vars

\* The front end building the body of a function of any declared return type
\* out of casts and returns.
CastReturnInit ==
  \E return_type \in RetTypes :
    /\ insts = [b \in AllBlocks |-> <<>>]
    /\ ModuleFields(return_type)
    /\ PassManIdle
    /\ LicmIdle

CastReturnNext ==
  \/ \E b \in UserBlocks : SetInsertPoint(b)
  \/ \E opr \in CastValues, type \in CastTypes : CreateCastAct(opr, type)
  \/ \E value \in ReturnValues, ub \in NullDerefOutcomes : CreateReturnOfAct(value, ub)

CastReturnSpec == CastReturnInit /\ [][CastReturnNext]_vars


\* ------------------------------------------------- PassManager::RunPasses
\* The module the manager was given: vars_, funcs_ and the blocks of each
\* function ("g" is a declaration: it has no block).
ModuleVars == "vars_"
ModuleFuncs == "funcs_"
PassFuncs == <<"f", "g", "h">>
BlocksOf(func) ==
  CASE func = "f" -> <<"f.b1", "f.b2">>
    [] func = "g" -> <<>>
    [] func = "h" -> <<"h.b1">>

OptLevels == 0 .. 3
PassKinds == {"Module", "Function", "Block"}
PassInfo(kind, level) == [kind |-> kind, min_opt_level |-> level]
PassInfos == {PassInfo(k, l) : k \in PassKinds, l \in {0, 2}}

RECURSIVE AllBlocksOf(_)
AllBlocksOf(fs) ==
  IF fs = <<>> THEN <<>> ELSE BlocksOf(Head(fs)) \o AllBlocksOf(Tail(fs))

\* What one pass of the for loop's body calls run_on_* on, in call order.
RunTargets(info) ==
  CASE info.kind = "Module"   -> <<ModuleVars, ModuleFuncs>>
    [] info.kind = "Function" -> PassFuncs
    [] info.kind = "Block"    -> AllBlocksOf(PassFuncs)

IsDisabledExclusive(info, level) == info.min_opt_level >= level

\* `if (info->min_opt_level() > opt_level_) continue;`
IsDisabled(info, level) == info.min_opt_level > level

AnyTrue(rets) == \E j \in DOMAIN rets : rets[j]
TrueCount(rets) == Cardinality({j \in DOMAIN rets : rets[j]})

RegisterPass(info) ==
  /\ pm_pc = "register"
  /\ Len(passes) < MaxPasses
  /\ passes' = Append(passes, info)
  /\ UNCHANGED <<opt_level_, pm_pc, pm_idx, changed, pm_log, sweeps, budget>>
  /\ UNCHANGED <<bvars, tvars, lvars>>

\* RunPasses is entered: `bool changed = true;`
RunPassesEnter ==
  /\ pm_pc = "register"
  /\ pm_pc' = "while"
  /\ changed' = TRUE
  /\ UNCHANGED <<passes, opt_level_, pm_idx, pm_log, sweeps, budget>>
  /\ UNCHANGED <<bvars, tvars, lvars>>

\* `while (changed) { changed = false; for (...` : the loop condition.
WhileChanged ==
  /\ pm_pc = "while"
  /\ IF changed
       THEN /\ changed' = FALSE
            /\ pm_pc' = "for"
            /\ pm_idx' = 1
            /\ pm_log' = <<>>
            /\ sweeps' = IF sweeps < MaxSweeps THEN sweeps + 1 ELSE sweeps
       ELSE /\ pm_pc' = "done"
            /\ UNCHANGED <<changed, pm_idx, pm_log, sweeps>>
  /\ UNCHANGED <<passes, opt_level_, budget>>
  /\ UNCHANGED <<bvars, tvars, lvars>>

\* One iteration of the for loop over GetPasses(): the pass is skipped, or
\* run on every target of its kind; rets are what its run_on_* calls return.
ForPass ==
  /\ pm_pc = "for"
  /\ pm_idx <= Len(passes)
  /\ LET info == passes[pm_idx]
         targets == RunTargets(info)
     IN IF IsDisabled(info, opt_level_)
          THEN UNCHANGED <<changed, pm_log, budget>>
          ELSE \E rets \in [1 .. Len(targets) -> BOOLEAN] :
                 /\ TrueCount(rets) <= budget
                 /\ pm_log' = pm_log \o
                      [j \in 1 .. Len(targets) |->
                         [pass |-> pm_idx, on |-> targets[j], ret |-> rets[j]]]
                 /\ changed' = (changed \/ AnyTrue(rets))
                 /\ budget' = budget - TrueCount(rets)
  /\ pm_idx' = pm_idx + 1
  /\ UNCHANGED <<passes, opt_level_, pm_pc, sweeps>>
  /\ UNCHANGED <<bvars, tvars, lvars>>

\* The for loop is exhausted: back to the while condition.
ForEnd ==
  /\ pm_pc = "for"
  /\ pm_idx > Len(passes)
  /\ pm_pc' = "while"
  /\ UNCHANGED <<passes, opt_level_, pm_idx, changed, pm_log, sweeps, budget>>
  /\ UNCHANGED <<bvars, tvars, lvars>>

PassManInit ==
  /\ BuilderIdle
  /\ LicmIdle
  /\ passes = <<>>
  /\ opt_level_ \in OptLevels
  /\ pm_pc = "register"
  /\ pm_idx = 0
  /\ changed = FALSE
  /\ pm_log = <<>>
  /\ sweeps = 0
  /\ budget = MaxChanges

PassManNext ==
  \/ \E info \in PassInfos : RegisterPass(info)
  \/ RunPassesEnter
  \/ WhileChanged
  \/ ForPass
  \/ ForEnd

PassManSpec == PassManInit /\ [][PassManNext]_vars

\* --------------------------------------- the function LICM is run on
\* A nest of three while loops after loop normalisation: every loop has a
\* pre-header (pre*), a header (head*) and the loop below it as its body;
\* end* is where a loop leaves to, which is the latch of the loop around it.
LoopBlocks == {"pre3", "head3", "pre2", "head2", "pre1", "head1", "body1",
               "end1", "end2", "end3"}
FuncEntry == "pre3"
Succ ==
  [b \in LoopBlocks |->
     CASE b = "pre3"  -> {"head3"}
       [] b = "head3" -> {"pre2", "end3"}
       [] b = "pre2"  -> {"head2"}
       [] b = "head2" -> {"pre1", "end2"}
       [] b = "pre1"  -> {"head1"}
       [] b = "head1" -> {"body1", "end1"}
       [] b = "body1" -> {"head1"}
       [] b = "end1"  -> {"head2"}
       [] b = "end2"  -> {"head3"}
       [] b = "end3"  -> {}]

\* The blocks reachable from the blocks of `frontier` on paths that avoid
\* the block `avoid`.
RECURSIVE ReachAvoiding(_, _, _)
ReachAvoiding(frontier, seen, avoid) ==
  LET new == (UNION {Succ[b] : b \in frontier}) \ (seen \cup {avoid})
  IN IF new = {} THEN seen ELSE ReachAvoiding(new, seen \cup new, avoid)

\* DominanceInfoPass: a dominates b iff every path from the entry to b
\* passes through a.
DomTable ==
  [a \in LoopBlocks |->
     {b \in LoopBlocks :
        b = a \/ (a # FuncEntry /\ b \notin ReachAvoiding({FuncEntry}, {FuncEntry}, a))}]
IsDominate(a, b) == b \in DomTable[a]

\* LoopInfoPass: the natural loop of every back edge, with the pre-header
\* loop normalisation gave it, innermost first.
LoopTails(h) == {t \in LoopBlocks : h \in Succ[t] /\ IsDominate(h, t)}
NaturalLoop(h) ==
  {h} \cup {n \in LoopBlocks \ {h} :
              LoopTails(h) \cap ReachAvoiding({n}, {n}, h) # {}}
LoopInfo(h) ==
  [header |-> h,
   body |-> NaturalLoop(h),
   preheader |-> CHOOSE p \in LoopBlocks : h \in Succ[p] /\ p \notin NaturalLoop(h)]
GetLoopInfo ==
  LET headers == {h \in LoopBlocks : LoopTails(h) # {}}
      all == CHOOSE s \in [1 .. Cardinality(headers) -> headers] :
               \A i, j \in DOMAIN s :
                  i < j => Cardinality(NaturalLoop(s[i])) < Cardinality(NaturalLoop(s[j]))
  IN [k \in DOMAIN all |-> LoopInfo(all[k])]

\* ------------------------------------------------- the instructions
\* An instruction is known by its identity (the pointer); what it is, and
\* what it uses, is in defs.  Operands are identities of instructions or
\* one of: a constant, the integer argument, a pointer argument, a global.
Inst(kind, ops) == [kind |-> kind, ops |-> ops]
ConstOpr == "const"
IntArg == "arg.n"
PtrArgs == {"arg.p", "arg.q"}
GlobalVar == "global"
Terminator == [b \in LoopBlocks |-> "term." \o b]
LoopPhi == "phi"
Ids == {"i1", "i2", "i3"}

\* The loop variable of the innermost loop and the terminators, which are
\* the same in every function drawn.
StaticDef(i) ==
  IF i = LoopPhi THEN Inst("Phi", <<>>)
  ELSE IF i = Terminator["end3"] THEN Inst("Return", <<>>)
  ELSE IF \E b \in LoopBlocks : i = Terminator[b] /\ Cardinality(Succ[b]) = 2
    THEN Inst("Branch", <<>>)
  ELSE Inst("Jump", <<>>)

Def(i) == IF i \in DOMAIN defs THEN defs[i] ELSE StaticDef(i)
AllInsts == Ids \cup {LoopPhi} \cup {Terminator[b] : b \in LoopBlocks}
IsInst(v) == v \in AllInsts
Operands(i) == {Def(i).ops[k] : k \in DOMAIN Def(i).ops}

\* Value::uses(): the users of a value.
Users(v) == {u \in AllInsts : v \in Operands(u)}

IsConstOrUndef(v) == v = ConstOpr
IsArgRef(v) == v = IntArg \/ v \in PtrArgs
IsGlobalVar(v) == v = GlobalVar

is_decl == func_blocks = <<>>

\* ParentScanner: one pass over the instruction lists of the function's
\* blocks, in the function's block order; a later block's entry replaces an
\* earlier one's.
ParentScanner(ir, order) ==
  [i \in AllInsts |->
     LET holders == {k \in 1 .. Len(order) :
                       \E j \in 1 .. Len(ir[order[k]]) : ir[order[k]][j] = i}
     IN IF holders = {} THEN Null
        ELSE order[CHOOSE k \in holders : \A m \in holders : m <= k]]
GetParent(par, v) == IF v \in DOMAIN par THEN par[v] ELSE Null

\* ------------------------------------------------------------- the pass
MaxPeel == 3        \* iterations of GetBasePointer's loop that are followed

\* The users GetBasePointer collects from phi->uses(): a use of the phi as an
\* incoming value of a Phi belongs to that Phi's PhiOperand, which is no
\* operand value, so only the other users count.
PhiUsers(phi) == {u \in Users(phi) : Def(u).kind # "Phi"}

\* `for (;;)` of GetBasePointer goes round once more for these kinds.
Peelable(ptr) == IsInst(ptr) /\ Def(ptr).kind \in {"Access", "Cast", "Phi"}

\* One round of the loop on a peelable ptr: the pointer of an access, the
\* operand of a cast, and for a phi the last incoming value that is not a
\* user of the phi, or the phi again when there is none.
NextPointer(ptr) ==
  LET d == Def(ptr)
      keep == {k \in DOMAIN d.ops : d.ops[k] \notin PhiUsers(ptr)}
  IN IF d.kind \in {"Access", "Cast"} THEN d.ops[1]
     ELSE IF keep = {} THEN ptr
     ELSE d.ops[CHOOSE k \in keep : \A m \in keep : m <= k]

\* GetBasePointer: the pointer under accesses, casts and phis; `fuel` bounds
\* the for(;;) loop, and the result is "diverges" when it runs out.
RECURSIVE Peel(_, _)
Peel(ptr, fuel) ==
  IF ~Peelable(ptr) THEN ptr
  ELSE IF fuel = 0 THEN "diverges"
  ELSE Peel(NextPointer(ptr), fuel - 1)
GetBasePointer(ptr) == Peel(ptr, MaxPeel)

\* ProcessStores without the widening to every pointer argument.
ProcessStoresExact(ir, loop) ==
  LET stores == {i \in AllInsts :
                   /\ Def(i).kind = "Store"
                   /\ \E b \in loop.body : \E j \in 1 .. Len(ir[b]) : ir[b][j] = i}
  IN {GetBasePointer(Def(i).ops[2]) : i \in stores}

\* ProcessStores: the base pointers stored to in the loop; a store to an
\* argument counts as a store to every pointer argument.
ProcessStores(ir, loop) ==
  LET stores == {i \in AllInsts :
                   /\ Def(i).kind = "Store"
                   /\ \E b \in loop.body : \E j \in 1 .. Len(ir[b]) : ir[b][j] = i}
      bases == {GetBasePointer(Def(i).ops[2]) : i \in stores}
  IN bases \cup (IF \E p \in bases : IsArgRef(p) THEN PtrArgs ELSE {})

\* IsInvariant
IsInvariant(val, st, par, loop) ==
  \/ IsConstOrUndef(val)
  \/ IsArgRef(val) \/ IsGlobalVar(val)
  \/ GetParent(par, val) \notin loop.body
  \/ val \in st.marked

\* LogInvariant, for the instruction i met in cur_block
LogInvariant(st, i, cur_block, par, loop) ==
  IF \E v \in Operands(i) : ~IsInvariant(v, st, par, loop) THEN st
  ELSE IF \E u \in Users(i) :
            /\ GetParent(par, u) \in loop.body
            /\ ~IsDominate(cur_block, GetParent(par, u))
    THEN st
  ELSE [st EXCEPT !.marked = @ \cup {i},
                  !.invs = IF Users(i) # {} THEN Append(@, i) ELSE @]

\* RunOn with LoadSSA treated like the other kinds, without the store set.
RunOnLoadUnguarded(st, i, cur_block, par, loop) ==
  LET kind == Def(i).kind
  IN IF kind \in {"Access", "Binary", "Unary", "Cast", "Select", "Load"}
       THEN LogInvariant(st, i, cur_block, par, loop)
     ELSE IF kind = "Alloca" THEN [st EXCEPT !.asserted = TRUE]
     ELSE st

\* i->RunPass(*this): the RunOn overload of the instruction's kind
RunOn(st, i, cur_block, par, loop) ==
  LET kind == Def(i).kind
  IN IF kind \in {"Access", "Binary", "Unary", "Cast", "Select"}
       THEN LogInvariant(st, i, cur_block, par, loop)
     ELSE IF kind = "Alloca" THEN [st EXCEPT !.asserted = TRUE]
     ELSE IF kind = "Load"
       THEN IF GetBasePointer(Def(i).ops[1]) \in st.stored THEN st
            ELSE LogInvariant(st, i, cur_block, par, loop)
     ELSE st

\* The value of a singleton set: Once({F(x) : x \in {e}}) is F(e) with e
\* worked out once, before F is.
Once(S) == CHOOSE r \in S : TRUE

\* `for (const auto &i : block->insts())` of the scan, from position k on
RECURSIVE ScanBlock(_, _, _, _, _, _)
ScanBlock(st, ir, block, k, par, loop) ==
  IF k > Len(ir[block]) \/ st.asserted THEN st
  ELSE Once({ScanBlock(s, ir, block, k + 1, par, loop) :
               s \in {IF ir[block][k] \in st.marked THEN st
                      ELSE RunOn(st, ir[block][k], block, par, loop)}})

\* `for (const auto &block : cur_loop_->body)`: the body in the order in
\* which its set is iterated
RECURSIVE ScanBody(_, _, _, _, _)
ScanBody(st, ir, blocks, par, loop) ==
  IF blocks = <<>> THEN st
  ELSE Once({ScanBody(s, ir, t, par, loop) :
               s \in {ScanBlock(st, ir, Head(blocks), 1, par, loop)},
               t \in {Tail(blocks)}})

\* `while (marked_invs_.size() != last_size)`
RECURSIVE ScanToFixedPoint(_, _, _, _, _, _)
ScanToFixedPoint(st, last_size, ir, blocks, par, loop) ==
  IF Cardinality(st.marked) = last_size \/ st.asserted THEN st
  ELSE Once({ScanToFixedPoint(s, Cardinality(st.marked), ir, blocks, par, loop) :
               s \in {ScanBody(st, ir, blocks, par, loop)}})

InsertBeforeLast(list, new) ==
  SubSeq(list, 1, Len(list) - 1) \o new \o <<list[Len(list)]>>

ListRemove(list, i) == SelectSeq(list, LAMBDA x : x # i)

\* `parent_->GetParent(i.get())->insts().remove(i)`: the parent is the one
\* the scanner saw when RunOnFunction began
RemoveFromParent(ir, i, par) ==
  [ir EXCEPT ![par[i]] = ListRemove(@, i)]

RECURSIVE RemoveAll(_, _, _)
RemoveAll(ir, invs, par) ==
  IF invs = <<>> THEN ir
  ELSE Once({RemoveAll(l, t, par) :
               l \in {RemoveFromParent(ir, Head(invs), par)}, t \in {Tail(invs)}})

\* ProcessLoop on the instruction lists ir; `iteration` is the order in
\* which a body set is iterated.
ProcessLoop(ir, par, loop, iteration) ==
  LET blocks == SelectSeq(iteration, LAMBDA b : b \in loop.body)
      block == loop.preheader
      hoist(st) ==
        IF st.asserted \/ st.invs = <<>>
          THEN [insts |-> ir, st |-> st, ret |-> FALSE]
          ELSE [insts |-> RemoveAll([ir EXCEPT ![block] = InsertBeforeLast(@, st.invs)],
                                    st.invs, par),
                st |-> st, ret |-> TRUE]
  IN Once({hoist(st) :
             st \in {ScanToFixedPoint([marked |-> {}, invs |-> <<>>,
                                       asserted |-> FALSE,
                                       stored |-> ProcessStores(ir, loop)],
                                      1, ir, blocks, par, loop)}})

\* ------------------------------------------ LICM under the pass manager
LicmMinOptLevel == 2
LicmFunc == "main"

\* PassManager::RunPasses reaches LICM in its for loop and calls
\* RunOnFunction, which returns at once for a declaration and otherwise
\* scans the parents and fetches the loops.
RunOnFunctionEnter ==
  /\ ~aborted
  /\ pm_pc = "for"
  /\ pm_idx <= Len(passes)
  /\ ~IsDisabled(passes[pm_idx], opt_level_)
  /\ passes[pm_idx].kind = "Function"
  /\ cur_loop_ = 0
  /\ IF is_decl
       THEN /\ pm_log' = Append(pm_log, [pass |-> pm_idx, on |-> LicmFunc, ret |-> FALSE])
            /\ pm_idx' = pm_idx + 1
            /\ UNCHANGED <<parent_, cur_loop_, run_changed, run_start>>
       ELSE /\ parent_' = ParentScanner(insts, func_blocks)
            /\ cur_loop_' = 1
            /\ run_changed' = FALSE
            /\ run_start' = insts
            /\ UNCHANGED <<pm_log, pm_idx>>
  /\ UNCHANGED <<insts, defs, func_blocks, body_order, marked_invs_, invs_, stored_ptrs_>>
  /\ UNCHANGED <<passes, opt_level_, pm_pc, changed, sweeps, budget>>
  /\ UNCHANGED <<preds, insert_point_, funcs_, global_ctor_, ctor_entry_,
                 ctor_exit_, is_ctor_sealed_, guards, acquired, tvars>>
  /\ UNCHANGED <<base_ptr, base_pc>>

\* `cur_loop_ = &info; if (ProcessLoop()) changed = true;` for one loop
ProcessLoopStep ==
  /\ ~aborted
  /\ cur_loop_ \in 1 .. Len(GetLoopInfo)
  /\ \E r \in {ProcessLoop(insts, parent_, GetLoopInfo[cur_loop_], body_order)} :
        /\ stored_ptrs_' = r.st.stored
        /\ marked_invs_' = r.st.marked
        /\ invs_' = r.st.invs
        /\ insts' = r.insts
        /\ aborted' = r.st.asserted
        /\ run_changed' = (run_changed \/ r.ret)
  /\ cur_loop_' = cur_loop_ + 1
  /\ UNCHANGED <<defs, func_blocks, body_order, parent_, run_start>>
  /\ UNCHANGED pvars
  /\ UNCHANGED <<preds, insert_point_, funcs_, global_ctor_, ctor_entry_,
                 ctor_exit_, is_ctor_sealed_, guards, acquired, last_call, ret_type>>
  /\ UNCHANGED <<base_ptr, base_pc>>

\* RunOnFunction returns `changed`; RunPasses: `if (...) changed = true;`
RunOnFunctionReturn ==
  /\ ~aborted
  /\ cur_loop_ = Len(GetLoopInfo) + 1
  /\ changed' = (changed \/ run_changed)
  /\ pm_log' = Append(pm_log, [pass |-> pm_idx, on |-> LicmFunc, ret |-> run_changed])
  /\ pm_idx' = pm_idx + 1
  /\ cur_loop_' = 0
  /\ UNCHANGED <<insts, defs, func_blocks, body_order, parent_, marked_invs_,
                 invs_, stored_ptrs_, run_changed, run_start>>
  /\ UNCHANGED <<passes, opt_level_, pm_pc, sweeps, budget>>
  /\ UNCHANGED <<preds, insert_point_, funcs_, global_ctor_, ctor_entry_,
                 ctor_exit_, is_ctor_sealed_, guards, acquired, tvars>>
  /\ UNCHANGED <<base_ptr, base_pc>>

\* ---------------------------------------------- the functions drawn
PlaceBlocks == {"head1", "body1", "end1"}
DefChoices ==
  [i \in Ids |->
     CASE i = "i1" -> {Inst("Binary", <<IntArg, ConstOpr>>),
                       Inst("Binary", <<LoopPhi, ConstOpr>>),
                       Inst("Load", <<"arg.p">>),
                       Inst("Alloca", <<>>)}
       [] i = "i2" -> {Inst("Binary", <<IntArg, ConstOpr>>),
                       Inst("Binary", <<"i1", ConstOpr>>),
                       Inst("Load", <<"arg.q">>),
                       Inst("Store", <<IntArg, "arg.p">>)}
       [] i = "i3" -> {Inst("Binary", <<"i1", LoopPhi>>),
                       Inst("Binary", <<"i2", LoopPhi>>),
                       Inst("Binary", <<"i1", "i2">>),
                       Inst("Store", <<"i1", GlobalVar>>),
                       Inst("Store", <<IntArg, "arg.p">>)}]

\* Block orders of the function: as the front end lays the loops out, and
\* with the pre-headers appended by loop normalisation, innermost first.
FuncOrders ==
  {<<"pre3", "head3", "pre2", "head2", "pre1", "head1", "body1", "end1", "end2", "end3">>,
   <<"head3", "head2", "head1", "body1", "end1", "end2", "end3", "pre1", "pre2", "pre3">>}

\* Orders in which a set of blocks is iterated
IterationOrders ==
  {<<"pre3", "head3", "pre2", "head2", "pre1", "head1", "body1", "end1", "end2", "end3">>,
   <<"end3", "end2", "end1", "body1", "head1", "pre1", "head2", "pre2", "head3", "pre3">>}

IdOrder == <<"i1", "i2", "i3">>

\* The instruction lists of the function with the instructions of Ids at
\* `place`, each block closed by its terminator.
Layout(place) ==
  [b \in LoopBlocks |->
     (IF b = "head1" THEN <<LoopPhi>> ELSE <<>>)
       \o SelectSeq(IdOrder, LAMBDA i : place[i] = b)
       \o <<Terminator[b]>>]

\* Definitions dominate their uses.
WellFormed(d, place) ==
  \A i, u \in Ids :
     (\E k \in DOMAIN d[u].ops : d[u].ops[k] = i) => IsDominate(place[i], place[u])

LicmInit ==
  /\ ModuleIdle
  /\ passes = <<[kind |-> "Function", min_opt_level |-> LicmMinOptLevel]>>
  /\ opt_level_ = LicmMinOptLevel
  /\ pm_pc = "while"
  /\ pm_idx = 0
  /\ changed = TRUE
  /\ pm_log = <<>>
  /\ sweeps = 0
  /\ budget = 0
  /\ defs \in {d \in [Ids -> UNION {DefChoices[i] : i \in Ids}] :
                 \A i \in Ids : d[i] \in DefChoices[i]}
  /\ \/ /\ func_blocks = <<>>
        /\ insts = [b \in LoopBlocks |-> <<>>]
        /\ body_order \in IterationOrders
        /\ defs = [i \in Ids |-> Inst("Binary", <<IntArg, ConstOpr>>)]
     \/ /\ func_blocks \in FuncOrders
        /\ body_order \in IterationOrders
        /\ \E place \in [Ids -> PlaceBlocks] :
              /\ WellFormed(defs, place)
              /\ insts = Layout(place)
  /\ parent_ = [i \in AllInsts |-> Null]
  /\ cur_loop_ = 0
  /\ marked_invs_ = {}
  /\ invs_ = <<>>
  /\ stored_ptrs_ = {}
  /\ run_changed = FALSE
  /\ run_start = insts
  /\ base_ptr = Null
  /\ base_pc = "idle"

LicmNext ==
  \/ WhileChanged
  \/ RunOnFunctionEnter
  \/ ProcessLoopStep
  \/ RunOnFunctionReturn
  \/ ForEnd

LicmSpec == LicmInit /\ [][LicmNext]_vars /\ WF_vars(LicmNext)

\* ---------------------------------------------- GetBasePointer, by steps
\* The pointer expressions drawn: a loop-carried pointer and what is computed
\* from it, phis with and without an incoming value from outside.
PointerChoices ==
  [i \in Ids |->
     CASE i = "i1" -> {Inst("Phi", <<"arg.p", "i2">>),
                       Inst("Phi", <<"i2">>),
                       Inst("Phi", <<"i3">>),
                       Inst("Access", <<"arg.p", ConstOpr>>),
                       Inst("Alloca", <<>>)}
       [] i = "i2" -> {Inst("Access", <<"i1", ConstOpr>>),
                       Inst("Cast", <<"i1">>),
                       Inst("Phi", <<"i1">>),
                       Inst("Phi", <<GlobalVar, "i1">>)}
       [] i = "i3" -> {Inst("Phi", <<"i1">>),
                       Inst("Phi", <<"i2", "i1">>),
                       Inst("Cast", <<"i2">>),
                       Inst("Access", <<"i2", IntArg>>)}]

\* The values GetBasePointer is called on.
PointerValues == Ids \cup PtrArgs \cup {GlobalVar, LoopPhi}

\* A call of GetBasePointer(ptr).
GetBasePointerCall(ptr) ==
  /\ base_pc = "idle"
  /\ base_ptr' = ptr
  /\ base_pc' = "loop"
  /\ UNCHANGED <<defs, func_blocks, body_order, parent_, cur_loop_, marked_invs_,
                 invs_, stored_ptrs_, run_changed, run_start>>
  /\ UNCHANGED <<bvars, tvars, pvars>>

\* The top of `for (;;)`: one of the three branches for an access, a cast
\* or a phi is entered.
GetBasePointerBranch ==
  /\ base_pc = "loop"
  /\ Peelable(base_ptr)
  /\ base_pc' = "branch"
  /\ UNCHANGED base_ptr
  /\ UNCHANGED <<defs, func_blocks, body_order, parent_, cur_loop_, marked_invs_,
                 invs_, stored_ptrs_, run_changed, run_start>>
  /\ UNCHANGED <<bvars, tvars, pvars>>

\* The branch assigns ptr, or for a phi leaves it as it is, and the loop
\* goes round.
GetBasePointerStep ==
  /\ base_pc = "branch"
  /\ base_ptr' = NextPointer(base_ptr)
  /\ base_pc' = "loop"
  /\ UNCHANGED <<defs, func_blocks, body_order, parent_, cur_loop_, marked_invs_,
                 invs_, stored_ptrs_, run_changed, run_start>>
  /\ UNCHANGED <<bvars, tvars, pvars>>

\* `else { return ptr; }`
GetBasePointerReturn ==
  /\ base_pc = "loop"
  /\ ~Peelable(base_ptr)
  /\ base_pc' = "returned"
  /\ UNCHANGED base_ptr
  /\ UNCHANGED <<defs, func_blocks, body_order, parent_, cur_loop_, marked_invs_,
                 invs_, stored_ptrs_, run_changed, run_start>>
  /\ UNCHANGED <<bvars, tvars, pvars>>

BasePointerInit ==
  /\ BuilderIdle
  /\ PassManIdle
  /\ defs \in {d \in [Ids -> UNION {PointerChoices[i] : i \in Ids}] :
                 \A i \in Ids : d[i] \in PointerChoices[i]}
  /\ func_blocks = <<>>
  /\ body_order = <<>>
  /\ parent_ = <<>>
  /\ cur_loop_ = 0
  /\ marked_invs_ = {}
  /\ invs_ = <<>>
  /\ stored_ptrs_ = {}
  /\ run_changed = FALSE
  /\ run_start = <<>>
  /\ base_ptr = Null
  /\ base_pc = "idle"

BasePointerNext ==
  \/ \E ptr \in PointerValues : GetBasePointerCall(ptr)
  \/ GetBasePointerBranch
  \/ GetBasePointerStep
  \/ GetBasePointerReturn

\* A call that has begun goes on executing.
BasePointerSpec ==
  BasePointerInit /\ [][BasePointerNext]_vars /\ WF_vars(BasePointerNext)

\* ================================================================ claims
Count(seq, x) == Cardinality({i \in DOMAIN seq : seq[i] = x})

Last(seq) == seq[Len(seq)]

\* The blocks some terminator of block b names as a successor.
Successors(s, b) ==
  {t \in AllBlocks : \E i \in DOMAIN s.insts[b] :
      /\ IsTerminator(s.insts[b][i])
      /\ \E k \in DOMAIN s.insts[b][i].succ : s.insts[b][i].succ[k] = t}

\* The last instruction is a terminator and no earlier one is.
Closed(block) ==
  Len(block) >= 1 =>
    /\ IsTerminator(Last(block))
    /\ \A i \in 1..(Len(block) - 1) : ~IsTerminator(block[i])

\* C1: SealGlobalCtor is idempotent. In every state the builder reaches, a
\* second call leaves the module as the first call left it; after the first
\* call the entry block holds exactly one jump to the exit block and the exit
\* block has the entry block as predecessor exactly once; without a global
\* constructor the call changes nothing.
C1_SealIdempotent ==
  LET once == SealGlobalCtor(Cur)
      twice == SealGlobalCtor(once)
  IN /\ twice = once
     /\ SealGlobalCtor(twice) = once
     /\ global_ctor_ = Null => once = Cur
     /\ global_ctor_ # Null =>
          /\ once.is_ctor_sealed_
          /\ Count(once.insts[once.ctor_entry_], Jump(once.ctor_exit_)) = 1
          /\ Count(once.preds[once.ctor_exit_], once.ctor_entry_) = 1

\* C1 witness: the constructor has been sealed and the front end has gone on
\* in a block of its own, where any further call meets a sealed constructor.
C1_Witness ==
  /\ is_ctor_sealed_
  /\ insert_point_ \in UserBlocks
  /\ insts[insert_point_] # <<>>
  /\ Count(insts[ctor_entry_], Jump(ctor_exit_)) = 1

\* C2: the last instruction of every non-empty block is a terminator and no
\* earlier instruction is one. Stated for the block the claim names, the entry
\* block of a sealed constructor, and for a front end that never terminates
\* that block itself: its only terminator is the jump the module appended.
C2_TerminatorLast ==
  (/\ is_ctor_sealed_
   /\ \A i \in DOMAIN insts[ctor_entry_] :
        IsTerminator(insts[ctor_entry_][i]) => insts[ctor_entry_][i] = Jump(ctor_exit_))
    => Closed(insts[ctor_entry_])

\* C3: for every terminator with successor S, S's predecessor list holds the
\* terminator's block exactly once, and every block of S's predecessor list
\* holds a terminator with successor S.
C3_PredecessorsExact ==
  \A p, t \in AllBlocks :
    /\ t \in Successors(Cur, p) => Count(preds[t], p) = 1
    /\ Count(preds[t], p) > 0 => t \in Successors(Cur, p)

\* C4: whenever Dump, RunPasses or GenerateCode is called on a module with a
\* global constructor, then at its first visit of a variable or function the
\* entry block ends with the jump to the exit block and the exit block
\* consists of the void return.
C4_SealedBeforeVisit ==
  global_ctor_ # Null =>
    LET seen == FirstVisit(Cur)
    IN /\ seen.insts[seen.ctor_entry_] # <<>>
       /\ Last(seen.insts[seen.ctor_entry_]) = Jump(seen.ctor_exit_)
       /\ seen.insts[seen.ctor_exit_] = <<Return>>

\* C5: EnterGlobalCtor moves the insert point to the entry block, and the
\* release of a guard (innermost first) puts the insert point back to the
\* block that was current when that guard was acquired; so the release of the
\* outermost guard restores the insert point of before the outermost call.
C5_GuardRestores ==
  [][/\ Len(guards') > Len(guards) =>
          /\ insert_point_' = ctor_entry_'
          /\ guards' = <<insert_point_>> \o guards
     /\ Len(guards') < Len(guards) =>
          /\ insert_point_' = Head(acquired)
          /\ guards' = Tail(guards)]_vars

\* C5 witness: every guard is released and the insert point is null again, as
\* it was before the outermost EnterGlobalCtor (only a release can do that).
C5_Witness ==
  /\ global_ctor_ # Null
  /\ guards = <<>>
  /\ insert_point_ = Null

\* What the last CreateStore call added to its block, and its Store.
NewInsts == SubSeq(insts[last_call.block], last_call.before + 1,
                   Len(insts[last_call.block]))

StoreDone == last_call.op = "CreateStore" /\ ~aborted

Accepts(ptr, val) ==
  /\ GetDerefedType(ptr.type) # NoType
  /\ CanAccept(GetDerefedType(ptr.type), val.type)

\* ptr, its address, the address of that, ...
RECURSIVE AddrChain(_)
AddrChain(ptr) == IF ptr = NoVal THEN <<>> ELSE <<ptr>> \o AddrChain(GetAddr(ptr))

\* The store went through the first pointer of the address chain that accepts
\* the value: the pointer is replaced by its address iff it does not accept.
UsedProperPointer(st) ==
  LET chain == AddrChain(last_call.pointer)
  IN \E n \in DOMAIN chain :
       /\ st.ops[2] = chain[n]
       /\ Accepts(chain[n], last_call.value)
       /\ \A m \in 1..(n - 1) : ~Accepts(chain[m], last_call.value)

\* One Cast iff the value's type differs from the pointee but is accepted,
\* none iff the types are identical.
CastCount(st) == IF st.ops[1] = last_call.value THEN 0 ELSE 1

CastsAsTyped(st) ==
  LET target_ty == GetDerefedType(st.ops[2].type)
      value == last_call.value
  IN /\ CastCount(st) = 1 <=>
          (~IsIdentical(value.type, target_ty) /\ CanAccept(target_ty, value.type))
     /\ CastCount(st) = 0 <=> IsIdentical(value.type, target_ty)
     /\ CastCount(st) = 1 =>
          /\ st.ops[1].kind = "Cast"
          /\ st.ops[1].type = target_ty
          /\ st.ops[1].ops[1] \in {value, GetAddr(value)}

\* C10 as stated: CreateStore creates one Cast iff the value's type is not
\* identical to the pointee but accepted, none iff identical, takes the
\* pointer's address iff the pointee does not accept the value, and a Cast it
\* creates precedes the Store in the block.
C10_CastPrecedesStore ==
  StoreDone =>
    LET st == Last(NewInsts)
    IN /\ st.kind = "Store"
       /\ UsedProperPointer(st)
       /\ CastsAsTyped(st)
       /\ CastCount(st) = 1 => NewInsts = <<st.ops[1], st>>
       /\ CastCount(st) = 0 => NewInsts = <<st>>

\* C10 amended: as above, but only the Cast of a non-constant value is an
\* instruction, inserted right before the Store; the Cast of a constant value
\* is a constant expression that is the Store's operand and is in no block.
C10_CastOfNonConstPrecedesStore ==
  StoreDone =>
    LET st == Last(NewInsts)
    IN /\ st.kind = "Store"
       /\ UsedProperPointer(st)
       /\ CastsAsTyped(st)
       /\ (CastCount(st) = 1 /\ ~IsConst(st.ops[1].ops[1])) =>
            NewInsts = <<st.ops[1], st>>
       /\ (CastCount(st) = 1 /\ IsConst(st.ops[1].ops[1])) => NewInsts = <<st>>
       /\ CastCount(st) = 0 => NewInsts = <<st>>

\* C10 witness: a store of a non-constant value through a loaded local: the
\* address was taken and the Cast stands right before the Store.
C10_Witness ==
  /\ StoreDone
  /\ last_call.value = ArgRef(U32)
  /\ last_call.pointer = LoadOf(AllocaOf(I32))
  /\ NewInsts = <<Cast(ArgRef(U32), I32), Store(Cast(ArgRef(U32), I32), AllocaOf(I32))>>


\* ------------------------------------------------------------------- C6
\* The run_on_* calls a sweep owes: every pass of the registry whose
\* min_opt_level does not exceed the optimization level, in turn, on both
\* global lists / every function / every block according to its kind.
OwedTargets(kind) ==
  IF kind = "Module" THEN <<"vars_", "funcs_">>
  ELSE IF kind = "Function" THEN <<"f", "g", "h">>
  ELSE <<"f.b1", "f.b2", "h.b1">>

RECURSIVE OwedCalls(_)
OwedCalls(i) ==
  IF i > Len(passes) THEN <<>>
  ELSE LET t == OwedTargets(passes[i].kind)
       IN (IF passes[i].min_opt_level <= opt_level_
             THEN [j \in 1 .. Len(t) |-> [pass |-> i, on |-> t[j]]]
             ELSE <<>>) \o OwedCalls(i + 1)

MadeCalls == [k \in 1 .. Len(pm_log) |-> [pass |-> pm_log[k].pass, on |-> pm_log[k].on]]
SomeReturnedTrue == \E k \in 1 .. Len(pm_log) : pm_log[k].ret
SweepComplete == sweeps > 0 /\ pm_pc \in {"while", "done"}

C6_State ==
  /\ \A k \in 1 .. Len(pm_log) : passes[pm_log[k].pass].min_opt_level <= opt_level_
  /\ SweepComplete => MadeCalls = OwedCalls(1)
  /\ pm_pc = "done" => SweepComplete /\ ~SomeReturnedTrue

C6_Step ==
  (SweepComplete /\ pm_pc = "while") =>
     IF SomeReturnedTrue
       THEN pm_pc' = "for" /\ pm_idx' = 1 /\ pm_log' = <<>>
       ELSE pm_pc' = "done"

\* C6: RunPasses never invokes a pass whose min_opt_level exceeds the
\* optimization level, invokes every other registered pass once per sweep on
\* every global list / function / block according to its kind, returns
\* exactly after the first full sweep in which no invoked pass returned true,
\* and sweeps the whole list again after a sweep in which some pass did.
C6_SweepsToFixedPoint == [](C6_State) /\ [][C6_Step]_vars

C6_Witness ==
  /\ pm_pc = "done"
  /\ sweeps >= 2
  /\ pm_log # <<>>
  /\ \E i \in 1 .. Len(passes) : passes[i].min_opt_level > opt_level_


\* ------------------------------------------------------------ C7, C8, C9
SweepReturned(n) == sweeps = n /\ pm_pc = "while"

\* C7: with LICM as the only enabled transform the fixed-point loop of the
\* pass manager terminates for every function: after finitely many sweeps
\* LICM returns changed = false and RunPasses returns.  A run that the
\* assertion on an Alloca ends is left aside: it does not go on for ever.
C7_LicmTerminates == <>(pm_pc = "done" \/ aborted)

\* C8: when LICM is run twice in succession on a function, the parents
\* rescanned in between, the second run reports changed = false and moves
\* no instruction, nested loops included.
C8_SecondRunUnchanged ==
  SweepReturned(2) => ~pm_log[Len(pm_log)].ret /\ insts = run_start

\* RunOnFunction as a function of the instruction lists, the block order
\* and the order in which body sets are iterated.
RECURSIVE RunLoops(_, _, _, _)
RunLoops(ir, par, k, iteration) ==
  IF k > Len(GetLoopInfo) THEN ir
  ELSE Once({RunLoops(l, par, k + 1, iteration) :
               l \in {ProcessLoop(ir, par, GetLoopInfo[k], iteration).insts}})
RunOnFunction(ir, order, iteration) ==
  Once({RunLoops(ir, par, 1, iteration) : par \in {ParentScanner(ir, order)}})

\* C9: run_passes is deterministic: the passes are invoked in registration
\* order in every sweep, and the instruction lists a sweep ends with, the
\* order of the instructions in every pre-header included, are the same
\* whatever the order in which a loop's body set is iterated.
C9_Deterministic ==
  /\ \A j, k \in 1 .. Len(pm_log) : j < k => pm_log[j].pass <= pm_log[k].pass
  /\ (pm_pc = "while" /\ sweeps >= 1 /\ ~is_decl) =>
        \A iteration \in IterationOrders :
           RunOnFunction(run_start, func_blocks, iteration) = insts

\* ------------------------------------------------------------------- C11
\* A CreateCast call whose target type is, after stripping its qualifier,
\* identical to the operand's type.
IdentityCast(call) ==
  /\ call.op = "CreateCast"
  /\ IsIdentical(call.value.type, GetTrivialType(call.type))

\* C11: create_cast of a value to a type whose trivial type is the value's own
\* type returns the value itself, inserts no instruction in any block and
\* leaves the insert point where it was.
C11_IdentityCastIsNoOp ==
  [][(last_call' # last_call /\ IdentityCast(last_call'))
       => /\ last_call'.ret = last_call'.value
          /\ last_call'.end = "returned"
          /\ ~aborted'
          /\ insts' = insts
          /\ insert_point_' = insert_point_]_vars

\* C11 witness: a non-constant i32 value was cast to const i32 with an insert
\* point set, and came back as itself.
C11_Witness ==
  /\ last_call.op = "CreateCast"
  /\ last_call.value = ArgRef(I32)
  /\ last_call.type = Qualified(I32)
  /\ last_call.block # Null
  /\ last_call.ret = ArgRef(I32)
  /\ Len(insts[last_call.block]) = last_call.before

\* ------------------------------------------------------------------- C12
\* The combinations the claim accepts: a void function with no value, or a
\* non-void function with a value of the trivial return type.
MatchesReturn(return_type, value) ==
  IF IsVoid(return_type) THEN value = NoVal
  ELSE value # NoVal /\ IsIdentical(GetTrivialType(return_type), value.type)

\* C12: create_return inserts a Return exactly when its argument matches the
\* declared return type (void iff no value, otherwise trivial(ret) identical
\* to value.type); every other combination aborts by assertion and inserts
\* nothing.
C12_ReturnMatchesDeclared ==
  last_call.op = "CreateReturn" =>
    IF MatchesReturn(ret_type, last_call.value)
      THEN last_call.end = "returned" /\ NewInsts = <<ReturnOf(last_call.value)>>
      ELSE last_call.end = "assert" /\ NewInsts = <<>>

\* ------------------------------------------------------------ C13, C14
\* Instruction i is in the list of block b.
InBlock(ir, b, i) == \E j \in 1 .. Len(ir[b]) : ir[b][j] = i

\* The instructions of a kind in the blocks of a loop's body.
BodyInsts(ir, loop, kind) ==
  {i \in AllInsts : Def(i).kind = kind /\ \E b \in loop.body : InBlock(ir, b, i)}

\* The step is one ProcessLoop call, on the loop GetLoopInfo[cur_loop_].
ProcessLoopRan == cur_loop_ \in 1 .. Len(GetLoopInfo) /\ cur_loop_' = cur_loop_ + 1

\* The step is a ProcessLoop call that returned.
ProcessLoopReturned == ProcessLoopRan /\ ~aborted'

\* The loop the last ProcessLoop call was on.
LastLoop == GetLoopInfo[cur_loop_ - 1]

\* The step leaves instruction i where it is, in every block.
Stays(i) == \A b \in LoopBlocks : Count(insts'[b], i) = Count(insts[b], i)

\* C13: ProcessLoop leaves in place every Load of the loop's body whose base
\* pointer is the base pointer of a Store of the body, or is in the store set
\* the call computed.
C13_StoredLoadsStay ==
  [][ProcessLoopRan =>
       \A i \in BodyInsts(insts, GetLoopInfo[cur_loop_], "Load") :
          (\/ \E s \in BodyInsts(insts, GetLoopInfo[cur_loop_], "Store") :
                  GetBasePointer(Def(s).ops[2]) = GetBasePointer(Def(i).ops[1])
           \/ GetBasePointer(Def(i).ops[1]) \in stored_ptrs_')
            => Stays(i)]_vars

\* C13 witness: ProcessLoop has marked an instruction of a loop and left
\* unmarked a Load of an argument that the loop also stores to.
C13_Witness ==
  /\ cur_loop_ > 1
  /\ marked_invs_ # {}
  /\ \E i \in BodyInsts(insts, LastLoop, "Load") :
        /\ IsArgRef(Def(i).ops[1])
        /\ \E s \in BodyInsts(insts, LastLoop, "Store") : Def(s).ops[2] = Def(i).ops[1]
        /\ Def(i).ops[1] \in stored_ptrs_
        /\ i \notin marked_invs_

\* C14: when the body holds a Store whose base pointer is an argument, the
\* store set ProcessLoop computes holds every pointer argument, and every
\* Load of the body whose base pointer is a pointer argument stays in place.
C14_ArgStoreBlocksArgLoads ==
  [][(ProcessLoopRan /\ \E s \in BodyInsts(insts, GetLoopInfo[cur_loop_], "Store") :
                           IsArgRef(GetBasePointer(Def(s).ops[2])))
       => /\ PtrArgs \subseteq stored_ptrs_'
          /\ \A i \in BodyInsts(insts, GetLoopInfo[cur_loop_], "Load") :
                GetBasePointer(Def(i).ops[1]) \in PtrArgs => Stays(i)]_vars

\* C14 witness: the loop stores to one pointer argument and loads from the
\* other one; the Load is left behind, unmarked.
C14_Witness ==
  /\ cur_loop_ > 1
  /\ PtrArgs \subseteq stored_ptrs_
  /\ \E i \in BodyInsts(insts, LastLoop, "Load"), s \in BodyInsts(insts, LastLoop, "Store") :
        /\ Def(s).ops[2] \in PtrArgs
        /\ Def(i).ops[1] \in PtrArgs \ {Def(s).ops[2]}
        /\ i \notin marked_invs_

\* ------------------------------------------------------------------- C15
\* Instruction v is in some block of the loop's body.
InBody(ir, loop, v) == \E b \in loop.body : InBlock(ir, b, v)

\* C15: every operand of an instruction ProcessLoop marked is a constant, an
\* argument, a global, an instruction that was outside the loop's body, or
\* marked itself; and after the call no instruction of the pre-header has an
\* operand that is an instruction still in the loop's body.
C15_OperandsInvariant ==
  [][ProcessLoopReturned =>
       /\ \A i \in marked_invs_' : \A v \in Operands(i) :
             \/ IsConstOrUndef(v) \/ IsArgRef(v) \/ IsGlobalVar(v)
             \/ ~InBody(insts, GetLoopInfo[cur_loop_], v)
             \/ v \in marked_invs_'
       /\ \A i \in AllInsts : InBlock(insts', GetLoopInfo[cur_loop_].preheader, i) =>
             \A v \in Operands(i) : ~InBody(insts', GetLoopInfo[cur_loop_], v)]_vars

\* ------------------------------------------------------------------- C16
\* C16: after ProcessLoop every instruction it marked, one without users
\* included, is in the pre-header before the terminator, which is still the
\* last instruction there, and is in no block of the loop's body.
C16_MarkedAreHoisted ==
  [][ProcessLoopReturned =>
       LET loop == GetLoopInfo[cur_loop_]
           block == insts'[loop.preheader]
       IN /\ Last(block) = Terminator[loop.preheader]
          /\ \A i \in marked_invs_' :
                /\ \E j \in 1 .. Len(block) - 1 : block[j] = i
                /\ ~InBody(insts', loop, i)]_vars

\* ------------------------------------------------------------------- C17
\* The positions of x in a list.
IndexOf(list, x) == {j \in 1 .. Len(list) : list[j] = x}

\* Instruction i preceded instruction j in program order when the run began:
\* in an earlier block of the function, or earlier in the same block.
Preceded(i, j) ==
  \E bi \in IndexOf(func_blocks, GetParent(parent_, i)),
     bj \in IndexOf(func_blocks, GetParent(parent_, j)) :
     \/ bi < bj
     \/ /\ bi = bj
        /\ \E pi \in IndexOf(run_start[func_blocks[bi]], i),
              pj \in IndexOf(run_start[func_blocks[bi]], j) : pi < pj

\* C17: the instructions a ProcessLoop call hoists stand in the pre-header in
\* the program order they had before the pass.
C17_HoistedInProgramOrder ==
  [][ProcessLoopReturned =>
       \A pi, pj \in DOMAIN invs_' :
          Preceded(invs_'[pi], invs_'[pj]) =>
            \E qi \in IndexOf(insts'[GetLoopInfo[cur_loop_].preheader], invs_'[pi]),
               qj \in IndexOf(insts'[GetLoopInfo[cur_loop_].preheader], invs_'[pj]) :
               qi < qj]_vars

\* ------------------------------------------------------------------- C18
\* A Binary in the loop's header that computes on constants and arguments
\* only and has a user: invariant whatever else the loop holds.
PlainInvariants(ir, loop) ==
  {i \in AllInsts :
     /\ Def(i).kind = "Binary"
     /\ InBlock(ir, loop.header, i)
     /\ \A v \in Operands(i) : IsConstOrUndef(v) \/ IsArgRef(v)
     /\ Users(i) # {}}

\* C18: ProcessLoop on a loop whose body holds an Alloca returns normally,
\* neither marks nor moves the Alloca, and hoists the loop's other invariant
\* instructions.
C18_AllocaIgnored ==
  [][(ProcessLoopRan /\ BodyInsts(insts, GetLoopInfo[cur_loop_], "Alloca") # {})
       => /\ ~aborted'
          /\ \A a \in BodyInsts(insts, GetLoopInfo[cur_loop_], "Alloca") :
                a \notin marked_invs_' /\ Stays(a)
          /\ \A i \in PlainInvariants(insts, GetLoopInfo[cur_loop_]) :
                InBlock(insts', GetLoopInfo[cur_loop_].preheader, i)]_vars

\* ------------------------------------------------------------------- C19
\* The blocks whose instruction list holds i.
Holders(ir, i) == {b \in LoopBlocks : InBlock(ir, b, i)}

\* C19: when the first RunOnFunction has processed its last loop, every
\* instruction of the function is in the list of exactly one block, once.
C19_ExactlyOneBlock ==
  (cur_loop_ = Len(GetLoopInfo) + 1 /\ pm_log = <<>>) =>
    \A i \in AllInsts :
       Holders(run_start, i) # {} =>
         /\ Cardinality(Holders(insts, i)) = 1
         /\ \A b \in Holders(insts, i) : Count(insts[b], i) = 1

\* ------------------------------------------------------------------- C20
\* C20: every call of GetBasePointer returns, whatever chain of accesses,
\* casts and phis its argument heads.
C20_GetBasePointerReturns == (base_pc # "idle") ~> (base_pc = "returned")

====
